---- MODULE Spec2Model ----
(***************************************************************************)
(* RAG-Synapse: the modular FastAPI backend (backend/) and the legacy      *)
(* single-file application (main.py).                                      *)
(*                                                                         *)
(* Python strings that the code inspects (queries, file names) are         *)
(* sequences of one-character strings, so that lower(), strip(), split()   *)
(* and startswith() are computed and not assumed.  Similarity scores and   *)
(* distances are integers in hundredths (0.3 is 30).                       *)
(***************************************************************************)
EXTENDS Integers, Sequences, FiniteSets, TLC

VARIABLES
    chunks,             \* the Chroma collection "documents" (backend/config.py)
    points,             \* the Qdrant collection "documents" (main.py)
    uuids,              \* number of doc_ids drawn with uuid.uuid4() and handed out
    env,                \* the process environment: which credentials are set
    embeddings_client,  \* config._embeddings_client
    embeddings_error,   \* config._embeddings_error
    llm_client,         \* config._llm_client
    llm_error,          \* config._llm_error
    constructed,        \* client objects constructed so far, per service
    returned,           \* doc_id -> chunks_created of every successful /upload response
    query,              \* the query of the request being served
    resp,               \* what the last request did and what it answered
    tasks,              \* the requests of the event loop: kind, position, input, response
    running             \* the task the event loop is executing, 0 when it is idle

vars == <<chunks, points, uuids, env, embeddings_client, embeddings_error,
          llm_client, llm_error, constructed, returned, query, resp, tasks, running>>

client_vars == <<embeddings_client, embeddings_error, llm_client, llm_error, constructed>>

loop_vars == <<tasks, running>>

----------------------------------------------------------------------------
(* Bounds of the model.                                                    *)

MaxQueryLen == 3
MaxWords == 3
MaxDocs == 2
MaxTopK == 2
MaxTasks == 3
MaxPages == 3

----------------------------------------------------------------------------
(* Python values and string methods.                                       *)

\* An Optional value is None or Some(v)
None == <<>>

Some(v) == <<v>>

Range(s) == {s[i] : i \in 1..Len(s)}

SetMin(S) == CHOOSE x \in S : \A y \in S : x <= y

SetMax(S) == CHOOSE x \in S : \A y \in S : x >= y

\* bool(x) of an Optional[str]: None and the empty string are falsy
Truthy(x) == x # None /\ x[1] # ""

Whitespace == {" ", "\t", "\n"}

UpperToLower ==
    "A" :> "a" @@ "B" :> "b" @@ "C" :> "c" @@ "D" :> "d" @@ "E" :> "e" @@ "F" :> "f" @@
    "G" :> "g" @@ "H" :> "h" @@ "I" :> "i" @@ "J" :> "j" @@ "K" :> "k" @@ "L" :> "l" @@
    "M" :> "m" @@ "N" :> "n" @@ "O" :> "o" @@ "P" :> "p" @@ "Q" :> "q" @@ "R" :> "r" @@
    "S" :> "s" @@ "T" :> "t" @@ "U" :> "u" @@ "V" :> "v" @@ "W" :> "w" @@ "X" :> "x" @@
    "Y" :> "y" @@ "Z" :> "z"

\* str.lower()
Lower(s) == [i \in 1..Len(s) |-> IF s[i] \in DOMAIN UpperToLower THEN UpperToLower[s[i]] ELSE s[i]]

\* str.strip()
Strip(s) ==
    LET keep == {i \in 1..Len(s) : s[i] \notin Whitespace}
    IN  IF keep = {} THEN <<>> ELSE SubSeq(s, SetMin(keep), SetMax(keep))

RECURSIVE SplitFrom(_, _, _, _)
SplitFrom(s, i, cur, acc) ==
    IF i > Len(s) THEN (IF cur = <<>> THEN acc ELSE Append(acc, cur))
    ELSE IF s[i] \in Whitespace
         THEN SplitFrom(s, i + 1, <<>>, IF cur = <<>> THEN acc ELSE Append(acc, cur))
         ELSE SplitFrom(s, i + 1, Append(cur, s[i]), acc)

\* str.split() without a separator: the maximal runs of non-whitespace
Split(s) == SplitFrom(s, 1, <<>>, <<>>)

\* str.startswith(p)
StartsWith(s, p) == Len(p) <= Len(s) /\ SubSeq(s, 1, Len(p)) = p

RECURSIVE SplitOn(_, _, _, _, _)
SplitOn(s, sep, i, cur, acc) ==
    IF i > Len(s) THEN Append(acc, cur)
    ELSE IF s[i] = sep
         THEN SplitOn(s, sep, i + 1, <<>>, Append(acc, cur))
         ELSE SplitOn(s, sep, i + 1, Append(cur, s[i]), acc)

\* str.split(sep): empty pieces are kept, the result is never empty
SplitSep(s, sep) == SplitOn(s, sep, 1, <<>>, <<>>)

----------------------------------------------------------------------------
(* backend/routes/chat.py: greeting detection.                             *)

greetings ==
    <<
      <<"h","e","l","l","o">>,
      <<"h","i">>,
      <<"h","e","y">>,
      <<"h","o","w"," ","a","r","e"," ","y","o","u">>,
      <<"h","o","w"," ","a","r","e"," ","u">>,
      <<"h","o","w","'","r","e"," ","y","o","u">>,
      <<"h","o","w","'","r","e"," ","u">>,
      <<"w","h","a","t","'","s"," ","u","p">>,
      <<"w","h","a","t","s"," ","u","p">>,
      <<"g","r","e","e","t","i","n","g","s">>,
      <<"g","o","o","d"," ","m","o","r","n","i","n","g">>,
      <<"g","o","o","d"," ","a","f","t","e","r","n","o","o","n">>,
      <<"g","o","o","d"," ","e","v","e","n","i","n","g">>,
      <<"g","o","o","d"," ","n","i","g","h","t">>,
      <<"s","u","p">>,
      <<"y","o">>,
      <<"h","o","w","s"," ","i","t"," ","g","o","i","n","g">>,
      <<"h","o","w","'","s"," ","i","t"," ","g","o","i","n","g">>
    >>

is_simple_greeting_short_and_member(q) ==
    LET query_lower == Strip(Lower(q))
    IN  IF query_lower \in Range(greetings) /\ Len(Split(query_lower)) <= 2
        THEN TRUE
        ELSE \E i \in 1..Len(greetings) : StartsWith(query_lower, greetings[i])

is_simple_greeting(q) ==
    LET query_lower == Strip(Lower(q))
    IN  IF query_lower \in Range(greetings) \/ Len(Split(query_lower)) <= 2
        THEN TRUE
        ELSE \E i \in 1..Len(greetings) : StartsWith(query_lower, greetings[i])

----------------------------------------------------------------------------
(* Exceptions and responses.                                               *)

\* an exception: its class, str(e) as the parts of the f-string that built it,
\* and the status code when it is an HTTPException
NoExc == [type |-> "", msg |-> <<>>, status |-> 0]

Exc(t, m) == [type |-> t, msg |-> m, status |-> 0]

HTTPException(code, detail) == [type |-> "HTTPException", msg |-> detail, status |-> code]

\* isinstance(e, ValueError): UnicodeDecodeError is a subclass of ValueError
IsValueError(e) == e.type \in {"ValueError", "UnicodeDecodeError"}

\* whether the text of exception e appears in a message
Contains(message, e) ==
    /\ e.msg # <<>>
    /\ \E i \in 1..Len(message) :
          /\ i + Len(e.msg) - 1 <= Len(message)
          /\ SubSeq(message, i, i + Len(e.msg) - 1) = e.msg

NoCall == [made |-> FALSE, attempted |-> FALSE, built |-> FALSE, raised |-> FALSE, value |-> None]

\* what a request did (the calls it made) and what it answered
NoResp ==
    [handler |-> "none", status |-> 0, body |-> [detail |-> <<>>],
     exc |-> NoExc, generic |-> FALSE, doc_id |-> 0, matched |-> 0,
     greeting |-> FALSE, results |-> <<>>, distances |-> <<>>, max_score |-> 0,
     file_name |-> <<>>, file_size |-> 0,
     embed_calls |-> 0, search_calls |-> 0, llm_calls |-> 0, index_writes |-> 0,
     tmp_written |-> FALSE, tmp_removed |-> FALSE, extracted |-> FALSE, pages |-> <<>>,
     hf_call |-> NoCall, llm_call |-> NoCall]

----------------------------------------------------------------------------
(* backend/config.py: lazily initialised API clients.                      *)
(* key: whether os.getenv finds a non-empty credential.  ctor: None when   *)
(* the client constructor returns, Some(str(e)) when it raises e.  obj:    *)
(* the object the constructor would build.                                 *)

CtorOutcomes == {None, Some("connection refused"), Some("")}

\* a variant that builds a client and does not keep it
ClientLookup_no_cache(client, error, failure, obj, prefix) ==
    LET init == client = None /\ error = None
        error1 == IF init /\ failure # None THEN failure ELSE error
    IN  [client |-> client, error |-> error1,
         attempted |-> init, built |-> init /\ failure = None,
         exc |-> IF Truthy(error1) THEN Exc("ValueError", <<prefix, error1[1]>>) ELSE NoExc,
         value |-> IF init /\ failure = None THEN Some(obj) ELSE client]

\* what a get_*_client call leaves in the cache and gives its caller, from the
\* outcome of the try block (failure: None, or Some(str(e)) of what it raised)
ClientLookup(client, error, failure, obj, prefix) ==
    LET init == client = None /\ error = None
        client1 == IF init /\ failure = None THEN Some(obj) ELSE client
        error1 == IF init /\ failure # None THEN failure ELSE error
    IN  [client |-> client1, error |-> error1,
         attempted |-> init, built |-> init /\ failure = None,
         exc |-> IF Truthy(error1) THEN Exc("ValueError", <<prefix, error1[1]>>) ELSE NoExc,
         value |-> client1]

get_embeddings_client(client, error, key, ctor, obj) ==
    ClientLookup(client, error,
                 IF ~key
                 THEN Some("HF_API_KEY not found in environment variables. Get your free API key at https://huggingface.co/settings/tokens")
                 ELSE ctor,
                 obj, "Embeddings client not initialized: ")

get_llm_client(client, error, key, ctor, obj) ==
    ClientLookup(client, error,
                 IF ~key THEN Some("DEEPSEEK_API_KEY not found in environment variables") ELSE ctor,
                 obj, "LLM client not initialized: ")

\* the record of one get_*_client call, kept in resp
CallLog(g) == [made |-> TRUE, attempted |-> g.attempted, built |-> g.built,
               raised |-> g.exc # NoExc, value |-> g.value]

\* what a remote call (feature_extraction, chat.completions.create) can do:
\* return, or raise an exception of the client library
RemoteErrors ==
    {Exc("HfHubHTTPError", <<"503 Server Error: Service Unavailable">>),
     Exc("ValueError", <<"Model is not supported by the provider">>)}

RemoteOutcomes == {NoExc} \cup RemoteErrors

\* the body of get_embedding after the client lookup g: a None client makes
\* client.feature_extraction raise AttributeError, otherwise the remote call decides
EmbeddingOutcome(g, remote) ==
    [client |-> g.client, error |-> g.error, call |-> CallLog(g),
     exc |-> IF g.exc # NoExc THEN g.exc
             ELSE IF g.value = None
             THEN Exc("AttributeError", <<"'NoneType' object has no attribute 'feature_extraction'">>)
             ELSE remote,
     remote_called |-> g.exc = NoExc /\ g.value # None]

\* get_embedding(text, is_query); the vector itself is not modelled
get_embedding(client, error, key, ctor, obj, remote) ==
    EmbeddingOutcome(get_embeddings_client(client, error, key, ctor, obj), remote)

----------------------------------------------------------------------------
(* backend/services/document_processor.py.                                 *)
(* A text is abstracted to the number of chunks the splitter cuts it into; *)
(* 0 is a text that is empty or whitespace only (text.strip() is falsy).   *)
(* A file has a name, a size in bytes and a content: the texts of its      *)
(* pages (PDF), of its paragraphs (DOCX) or its one text (TXT); a corrupt  *)
(* file makes the reader raise.                                            *)

MAX_FILE_SIZE == 52428800

\* the uploads of the ingestion specification; content holds the texts of the
\* pages of a PDF, of the paragraphs of a DOCX, of the lines of a TXT
Files ==
    {
      [name |-> <<"a",".","t","x","t">>, size |-> 1, content |-> <<<<"a","b">>>>, corrupt |-> FALSE],
      [name |-> <<"r",".","p","d","f">>, size |-> 1, content |-> <<<<"a">>, <<"b">>, <<"c">>>>, corrupt |-> FALSE],
      [name |-> <<"s","c","a","n",".","p","d","f">>, size |-> 1, content |-> <<<<>>, <<" ","\n">>>>, corrupt |-> FALSE],
      [name |-> <<"b","a","d",".","t","x","t">>, size |-> 1, content |-> <<<<"a">>>>, corrupt |-> TRUE],
      [name |-> <<"e",".","t","x","t">>, size |-> 0, content |-> <<>>, corrupt |-> FALSE],
      [name |-> <<"b","i","g",".","t","x","t">>, size |-> MAX_FILE_SIZE + 1, content |-> <<<<"a">>>>, corrupt |-> FALSE],
      [name |-> <<"c",".","e","x","e">>, size |-> 1, content |-> <<<<"a">>>>, corrupt |-> FALSE],
      [name |-> <<"t","x","t">>, size |-> 1, content |-> <<<<"a">>>>, corrupt |-> FALSE],
      [name |-> <<"R","E","A","D","M","E">>, size |-> 1, content |-> <<<<"a">>>>, corrupt |-> FALSE],
      [name |-> <<>>, size |-> 1, content |-> <<<<"a">>>>, corrupt |-> FALSE]
    }

\* file_name.lower().split('.')[-1]
Extension(name) == LET parts == SplitSep(Lower(name), ".") IN parts[Len(parts)]

RECURSIVE SumSeq(_)
SumSeq(s) == IF s = <<>> THEN 0 ELSE Head(s) + SumSeq(Tail(s))

\* text.strip() is truthy: the text has a character that is not whitespace
HasText(text) == Strip(text) # <<>>

RECURSIVE Join(_, _)
\* sep.join(parts)
Join(parts, sep) ==
    IF Len(parts) = 0 THEN <<>>
    ELSE IF Len(parts) = 1 THEN parts[1]
    ELSE parts[1] \o sep \o Join(Tail(parts), sep)

\* the number of chunks text_splitter.split_text makes of a text, with the chunk
\* size scaled down to one character: one chunk per non-whitespace character
Pieces(text) == Cardinality({i \in 1..Len(text) : text[i] \notin Whitespace})

\* a variant that numbers the retained pages 1, 2, ... in the order it keeps them
extract_text_from_pdf_renumbered(file) ==
    IF file.corrupt
    THEN [exc |-> Exc("PdfReadError", <<"EOF marker not found">>), pages |-> <<>>]
    ELSE LET kept == SelectSeq(file.content, HasText)
         IN  [exc |-> NoExc, pages |-> [i \in 1..Len(kept) |-> [text |-> kept[i], page |-> i]]]

\* file.content holds the texts page.extract_text() returns for the pages of a PDF
extract_text_from_pdf(file) ==
    IF file.corrupt
    THEN [exc |-> Exc("PdfReadError", <<"EOF marker not found">>), pages |-> <<>>]
    ELSE [exc |-> NoExc,
          pages |-> SelectSeq([i \in 1..Len(file.content) |-> [text |-> file.content[i], page |-> i]],
                              LAMBDA p : HasText(p.text))]

\* file.content holds the texts of the paragraphs of a DOCX
extract_text_from_docx(file) ==
    IF file.corrupt
    THEN [exc |-> Exc("PackageNotFoundError", <<"Package not found">>), pages |-> <<>>]
    ELSE LET text == Join(SelectSeq(file.content, HasText), <<"\n">>)
         IN  [exc |-> NoExc, pages |-> IF HasText(text) THEN <<[text |-> text, page |-> 1]>> ELSE <<>>]

\* file.content holds the lines of a TXT; txt_file.read() returns them whole
extract_text_from_txt(file) ==
    IF file.corrupt
    THEN [exc |-> Exc("UnicodeDecodeError", <<"'utf-8' codec can't decode byte">>), pages |-> <<>>]
    ELSE LET text == Join(file.content, <<"\n">>)
         IN  [exc |-> NoExc, pages |-> IF HasText(text) THEN <<[text |-> text, page |-> 1]>> ELSE <<>>]

extract_text(file) ==
    LET extension == Extension(file.name)
    IN  IF extension = <<"p","d","f">> THEN extract_text_from_pdf(file)
        ELSE IF extension \in {<<"d","o","c","x">>, <<"d","o","c">>} THEN extract_text_from_docx(file)
        ELSE IF extension = <<"t","x","t">> THEN extract_text_from_txt(file)
        ELSE [exc |-> Exc("ValueError", <<"Unsupported file type: {extension}">>), pages |-> <<>>]

\* split_text(text): the pieces of one page, in order
split_text(p) == [j \in 1..Pieces(p.text) |-> [page |-> p.page, piece |-> j]]

RECURSIVE AllPieces(_)
\* the chunks of all pages in the order the nested loops visit them
AllPieces(pages) ==
    IF pages = <<>> THEN <<>> ELSE split_text(Head(pages)) \o AllPieces(Tail(pages))

----------------------------------------------------------------------------
(* backend/services/vector_store.py.                                       *)
(* A fault is what goes wrong outside the program during one request: the  *)
(* splitter raising at the at-th extracted page, the at-th embedding call  *)
(* raising exc, or a call of the vector index raising.                     *)

NoFault == [stage |-> "none", at |-> 0, exc |-> NoExc]

IndexError == Exc("ChromaError", <<"Could not connect to tenant default_tenant">>)

\* the exception classes of a failing vector index (Chroma, Qdrant)
IndexErrorTypes == {"ChromaError", "QdrantError"}

IngestFaults(file) ==
    LET n == Pieces(Join(file.content, <<>>))
    IN  {NoFault}
        \cup {[stage |-> s, at |-> 0, exc |-> IndexError] : s \in {"get_collection", "add"}}
        \cup {[stage |-> "split", at |-> p, exc |-> Exc("SplitterError", <<"splitter failed">>)] :
                 p \in 1..Len(file.content)}
        \cup {[stage |-> "embed", at |-> k, exc |-> e] : k \in 1..n, e \in RemoteErrors}

\* a counter that starts again at 0 on every page
ChunkCounter_per_page(todo, i) ==
    todo[i].piece - 1

\* the value of chunk_id when the i-th piece is appended: 0 before the loops
\* (line 28), incremented after every piece (line 51)
ChunkCounter(todo, i) ==
    i - 1

\* number of pieces on the pages before the p-th extracted page
PiecesBefore(pages, p) == SumSeq([i \in 1..(p - 1) |-> Pieces(pages[i].text)])

\* The loop of process_and_store_document (lines 23-51) over the pieces todo,
\* with g the first get_embedding call (the one that may initialise the client)
\* and split_stop the index of the first piece of the page whose split raises:
\* which piece the loop stops at, the exception that stops it, the calls made and
\* the records built.  Within a page the split comes before the embedding calls.
LoopOutcome(file, fault, doc_id, todo, g, split_stop) ==
    LET n == Len(todo)
        embed_stop == IF g.exc # NoExc THEN 1
                      ELSE IF fault.stage = "embed" /\ fault.at <= n THEN fault.at ELSE n + 1
        by_split == split_stop <= n /\ split_stop <= embed_stop
        stop == IF by_split THEN split_stop ELSE embed_stop
        calls == IF ~by_split /\ stop <= n THEN stop ELSE stop - 1
    IN  [doc_id |-> doc_id, n |-> n, stop |-> stop, calls |-> calls,
         exc |-> IF stop > n THEN NoExc
                 ELSE IF by_split THEN fault.exc
                 ELSE IF g.exc # NoExc THEN g.exc ELSE fault.exc,
         client |-> IF calls > 0 THEN g.client ELSE embeddings_client,
         error |-> IF calls > 0 THEN g.error ELSE embeddings_error,
         hf_call |-> IF calls > 0 THEN g.call ELSE NoCall,
         records |-> [i \in 1..n |->
                        [id |-> <<doc_id, i>>, doc_id |-> doc_id, file_name |-> file.name,
                         page |-> todo[i].page, chunk_id |-> ChunkCounter(todo, i),
                         text |-> todo[i]]]]

\* doc_id = str(uuid.uuid4()) is a value never handed out before.  A doc_id drawn
\* by a request that stores and returns nothing is seen by no one and not counted.
IngestLoop(file, fault, ctor, pages) ==
    LoopOutcome(file, fault, uuids + 1, AllPieces(pages),
                get_embedding(embeddings_client, embeddings_error, env.HF_API_KEY, ctor,
                              constructed.huggingface + 1, NoExc),
                IF fault.stage = "split" /\ fault.at <= Len(pages)
                THEN PiecesBefore(pages, fault.at) + 1
                ELSE SumSeq([i \in 1..Len(pages) |-> Pieces(pages[i].text)]) + 1)

\* what process_and_store_document leaves when it raises before the loop
NotIngested(exc) ==
    [exc |-> exc, chunks |-> chunks, uuids |-> uuids,
     client |-> embeddings_client, error |-> embeddings_error,
     hf_call |-> NoCall, embed_calls |-> 0, index_writes |-> 0,
     doc_id |-> 0, chunks_created |-> 0]

\* what the loop leaves: the client cache and the calls made, nothing stored
AfterLoop(run) ==
    [exc |-> run.exc, chunks |-> chunks, uuids |-> uuids,
     client |-> run.client, error |-> run.error,
     hf_call |-> run.hf_call, embed_calls |-> run.calls, index_writes |-> 0,
     doc_id |-> 0, chunks_created |-> 0]

\* a variant that adds each chunk to the collection as soon as it is embedded
StoreBatch_add_in_loop(fault, run) ==
    IF run.exc # NoExc \/ fault.stage = "add"
    THEN [AfterLoop(run) EXCEPT
            !.exc = IF run.exc # NoExc THEN run.exc ELSE fault.exc,
            !.chunks = chunks \cup {run.records[i] : i \in 1..(run.stop - 1)},
            !.uuids = uuids + (IF run.stop > 1 THEN 1 ELSE 0),
            !.index_writes = run.stop - 1]
    ELSE [AfterLoop(run) EXCEPT
            !.chunks = chunks \cup Range(run.records), !.uuids = uuids + 1,
            !.index_writes = run.n,
            !.doc_id = run.doc_id, !.chunks_created = run.n]

\* lines 53-64: after the loop, the one collection.add call and the result
StoreBatch(fault, run) ==
    IF run.exc # NoExc THEN AfterLoop(run)
    ELSE IF fault.stage = "add" THEN [AfterLoop(run) EXCEPT !.exc = fault.exc]
    ELSE [AfterLoop(run) EXCEPT
            !.chunks = chunks \cup Range(run.records), !.uuids = uuids + 1,
            !.index_writes = 1,
            !.doc_id = run.doc_id, !.chunks_created = run.n]

\* lines 11-21, then the loop and the store, for the extraction result ex
ProcessExtracted(file, fault, ctor, ex) ==
    IF ex.exc # NoExc THEN NotIngested(ex.exc)
    ELSE IF ex.pages = <<>>
    THEN NotIngested(Exc("ValueError", <<"No text could be extracted from the document.">>))
    ELSE IF fault.stage = "get_collection" THEN NotIngested(fault.exc)
    ELSE StoreBatch(fault, IngestLoop(file, fault, ctor, ex.pages))

\* Returns the exception raised (NoExc when it returns), the new collection, uuid
\* counter and client cache, and the calls made.
process_and_store_document(file, fault, ctor) ==
    ProcessExtracted(file, fault, ctor, extract_text(file))

----------------------------------------------------------------------------
(* backend/routes/upload.py and backend/routes/documents.py.               *)
(* A handler is an operator from the request (and what the outside world   *)
(* does during it) to the response and the state it leaves.  The Arabic    *)
(* detail texts of upload.py are given in English.                         *)

SupportedExtensions ==
    {<<"p","d","f">>, <<"d","o","c","x">>, <<"d","o","c">>, <<"t","x","t">>}

UploadFailedDetail ==
    <<"An error occurred while processing the document. Please check the file format and try again.">>

\* a variant that unlinks the temporary file after process_and_store_document
\* has returned, without try/finally
UploadProcessed_unlink_after_return(file, p) ==
    LET traced == [NoResp EXCEPT
                     !.handler = "upload",
                     !.tmp_written = TRUE, !.tmp_removed = (p.exc = NoExc), !.extracted = TRUE,
                     !.pages = extract_text(file).pages,
                     !.embed_calls = p.embed_calls, !.index_writes = p.index_writes,
                     !.hf_call = p.hf_call, !.exc = p.exc]
    IN  IF p.exc = NoExc
        THEN [resp |-> [traced EXCEPT
                          !.status = 200, !.doc_id = p.doc_id,
                          !.body = [message |-> <<"The document was uploaded and processed successfully">>,
                                    doc_id |-> p.doc_id, file_name |-> file.name,
                                    chunks_created |-> p.chunks_created,
                                    upload_timestamp |-> "now"]],
              p |-> p]
        ELSE IF IsValueError(p.exc)
        THEN [resp |-> [traced EXCEPT !.status = 400, !.body = [detail |-> p.exc.msg]], p |-> p]
        ELSE [resp |-> [traced EXCEPT !.status = 500, !.generic = TRUE,
                                      !.body = [detail |-> UploadFailedDetail]],
              p |-> p]

\* lines 45-76 of upload_document: the temporary file is written before and
\* unlinked (finally) after process_and_store_document, whose outcome is p;
\* pages is what extract_text returned inside it
UploadProcessed(file, p) ==
    LET traced == [NoResp EXCEPT
                     !.handler = "upload",
                     !.tmp_written = TRUE, !.tmp_removed = TRUE, !.extracted = TRUE,
                     !.pages = extract_text(file).pages,
                     !.embed_calls = p.embed_calls, !.index_writes = p.index_writes,
                     !.hf_call = p.hf_call, !.exc = p.exc]
    IN  IF p.exc = NoExc
        THEN [resp |-> [traced EXCEPT
                          !.status = 200, !.doc_id = p.doc_id,
                          !.body = [message |-> <<"The document was uploaded and processed successfully">>,
                                    doc_id |-> p.doc_id, file_name |-> file.name,
                                    chunks_created |-> p.chunks_created,
                                    upload_timestamp |-> "now"]],
              p |-> p]
        ELSE IF IsValueError(p.exc)
        THEN [resp |-> [traced EXCEPT !.status = 400, !.body = [detail |-> p.exc.msg]], p |-> p]
        ELSE [resp |-> [traced EXCEPT !.status = 500, !.generic = TRUE,
                                      !.body = [detail |-> UploadFailedDetail]],
              p |-> p]

\* a request refused by the validation of upload_document
UploadRejected(detail) ==
    [resp |-> [NoResp EXCEPT !.handler = "upload", !.status = 400,
                             !.body = [detail |-> detail],
                             !.exc = HTTPException(400, detail)],
     p |-> NotIngested(NoExc)]

\* a variant that looks at the size after it has written the temporary file
upload_document_empty_after_write(file, fault, ctor) ==
    IF file.name = <<>> THEN UploadRejected(<<"Filename is required.">>)
    ELSE IF Extension(file.name) \notin SupportedExtensions
    THEN UploadRejected(<<"Unsupported file type. Please upload a PDF, DOCX or TXT file only.">>)
    ELSE IF file.size > MAX_FILE_SIZE
    THEN UploadRejected(<<"The file is too large. The maximum is 50 MB. Current file size: {file_size} MB.">>)
    ELSE IF file.size = 0
    THEN [UploadRejected(<<"The file is empty. Please upload a file with content.">>)
             EXCEPT !.resp.tmp_written = TRUE, !.resp.tmp_removed = TRUE]
    ELSE UploadProcessed(file, process_and_store_document(file, fault, ctor))

upload_document(file, fault, ctor) ==
    IF file.name = <<>> THEN UploadRejected(<<"Filename is required.">>)
    ELSE IF Extension(file.name) \notin SupportedExtensions
    THEN UploadRejected(<<"Unsupported file type. Please upload a PDF, DOCX or TXT file only.">>)
    ELSE IF file.size > MAX_FILE_SIZE
    THEN UploadRejected(<<"The file is too large. The maximum is 50 MB. Current file size: {file_size} MB.">>)
    ELSE IF file.size = 0
    THEN UploadRejected(<<"The file is empty. Please upload a file with content.">>)
    ELSE UploadProcessed(file, process_and_store_document(file, fault, ctor))

DeleteFaults ==
    {NoFault} \cup {[stage |-> s, at |-> 0, exc |-> IndexError] : s \in {"get_collection", "get", "delete"}}

\* a variant that counts the matching chunks again after deleting them
delete_document_chunks_count_after(doc_id, fault) ==
    LET ids == {c.id : c \in {c \in chunks : c.doc_id = doc_id}}
        left == {c \in chunks : c.id \notin ids}
    IN  IF fault.stage \in {"get_collection", "get"} \/ (ids # {} /\ fault.stage = "delete")
        THEN [exc |-> fault.exc, chunks |-> chunks, count |-> 0, matched |-> Cardinality(ids)]
        ELSE [exc |-> NoExc, chunks |-> left,
              count |-> Cardinality({c \in left : c.doc_id = doc_id}), matched |-> Cardinality(ids)]

\* collection.get(where = {"doc_id": {"$eq": doc_id}}): the ids of the matching rows
MatchingIds(doc_id) == {c.id : c \in {c \in chunks : c.doc_id = doc_id}}

\* a variant that deletes only one of the ids it has read
DeleteGot_one_id(ids, fault) ==
    IF fault.stage \in {"get_collection", "get"}
    THEN [exc |-> fault.exc, chunks |-> chunks, count |-> 0, matched |-> 0]
    ELSE IF ids # {}
    THEN IF fault.stage = "delete"
         THEN [exc |-> fault.exc, chunks |-> chunks, count |-> 0, matched |-> Cardinality(ids)]
         ELSE [exc |-> NoExc, chunks |-> {c \in chunks : c.id # (CHOOSE i \in ids : TRUE)},
               count |-> Cardinality(ids), matched |-> Cardinality(ids)]
    ELSE [exc |-> NoExc, chunks |-> chunks, count |-> 0, matched |-> 0]

\* delete_document_chunks once collection.get has returned ids (lines 106-110):
\* the exception raised, the collection left, the count returned and the number
\* of chunks the filter matched
DeleteGot(ids, fault) ==
    IF fault.stage \in {"get_collection", "get"}
    THEN [exc |-> fault.exc, chunks |-> chunks, count |-> 0, matched |-> 0]
    ELSE IF ids # {}
    THEN IF fault.stage = "delete"
         THEN [exc |-> fault.exc, chunks |-> chunks, count |-> 0, matched |-> Cardinality(ids)]
         ELSE [exc |-> NoExc, chunks |-> {c \in chunks : c.id \notin ids},
               count |-> Cardinality(ids), matched |-> Cardinality(ids)]
    ELSE [exc |-> NoExc, chunks |-> chunks, count |-> 0, matched |-> 0]

\* delete_document_chunks(doc_id)
delete_document_chunks(doc_id, fault) ==
    DeleteGot(MatchingIds(doc_id), fault)

\* lines 32-45 of delete_document, d being what delete_document_chunks did
DeleteAnswered(doc_id, d) ==
    LET base == [NoResp EXCEPT !.handler = "delete", !.doc_id = doc_id, !.matched = d.matched]
    IN  IF d.exc # NoExc
        THEN [resp |-> [base EXCEPT !.status = 500, !.generic = TRUE, !.exc = d.exc,
                                    !.body = [detail |-> <<"Error deleting document. Please try again.">>]],
              chunks |-> d.chunks]
        ELSE IF d.count > 0
        THEN [resp |-> [base EXCEPT
                          !.status = 200, !.index_writes = 1,
                          !.body = [message |-> [template |-> "Deleted {deleted_count} chunks for document {doc_id}",
                                                 deleted_count |-> d.count, doc_id |-> doc_id]]],
              chunks |-> d.chunks]
        ELSE [resp |-> [base EXCEPT !.status = 404, !.exc = HTTPException(404, <<"Document not found">>),
                                    !.body = [detail |-> <<"Document not found">>]],
              chunks |-> d.chunks]

delete_document(doc_id, fault) == DeleteAnswered(doc_id, delete_document_chunks(doc_id, fault))

----------------------------------------------------------------------------
(* backend/services/vector_store.py: get_all_documents, and GET /documents *)
(* of backend/routes/documents.py.                                         *)

\* the characters of file names, in the order of their code points
CodePointOrder ==
    <<
      ".", "A", "B", "C", "D", "E", "F", "G", "H", "I", "J", "K", "L",
      "M", "N", "O", "P", "Q", "R", "S", "T", "U", "V", "W", "X", "Y",
      "Z", "a", "b", "c", "d", "e", "f", "g", "h", "i", "j", "k", "l",
      "m", "n", "o", "p", "q", "r", "s", "t", "u", "v", "w", "x", "y",
      "z"
    >>

Ord(c) == CHOOSE i \in 1..Len(CodePointOrder) : CodePointOrder[i] = c

RECURSIVE StrLess(_, _)
\* a < b for two str values
StrLess(a, b) ==
    IF b = <<>> THEN FALSE
    ELSE IF a = <<>> THEN TRUE
    ELSE IF Head(a) # Head(b) THEN Ord(Head(a)) < Ord(Head(b))
    ELSE StrLess(Tail(a), Tail(b))

\* documents_map (lines 124-146): one entry per doc_id, with the file name of its
\* first chunk and the number of its chunks
DocumentsMap ==
    {[doc_id |-> d,
      file_name |-> (CHOOSE c \in chunks :
                       /\ c.doc_id = d
                       /\ \A e \in chunks : e.doc_id = d => c.chunk_id <= e.chunk_id).file_name,
      chunks_count |-> Cardinality({c \in chunks : c.doc_id = d})] :
        d \in {c.doc_id : c \in chunks}}

RECURSIVE InsertionOrder(_)
\* list(documents_map.values()): the entries in the order their first chunks were
\* added to the collection, which is the order of their doc_ids
InsertionOrder(entries) ==
    IF entries = {} THEN <<>>
    ELSE LET first == CHOOSE e \in entries : \A f \in entries : e.doc_id <= f.doc_id
         IN  <<first>> \o InsertionOrder(entries \ {first})

RECURSIVE SortByFileName(_)
\* list.sort(key = file_name): a stable sort of the sequence
SortByFileName(docs) ==
    IF docs = <<>> THEN <<>>
    ELSE LET least == CHOOSE i \in 1..Len(docs) :
                         /\ \A j \in 1..Len(docs) : ~StrLess(docs[j].file_name, docs[i].file_name)
                         /\ \A j \in 1..(i - 1) : StrLess(docs[i].file_name, docs[j].file_name)
         IN  <<docs[least]>>
             \o SortByFileName([j \in 1..(Len(docs) - 1) |-> IF j < least THEN docs[j] ELSE docs[j + 1]])

\* a variant that returns the entries unsorted
get_all_documents_unsorted(fault) ==
    IF fault.stage # "none" THEN [exc |-> fault.exc, documents |-> <<>>]
    ELSE [exc |-> NoExc, documents |-> InsertionOrder(DocumentsMap)]

get_all_documents(fault) ==
    IF fault.stage # "none" THEN [exc |-> fault.exc, documents |-> <<>>]
    ELSE [exc |-> NoExc, documents |-> SortByFileName(InsertionOrder(DocumentsMap))]

ListFaults ==
    {NoFault} \cup {[stage |-> s, at |-> 0, exc |-> IndexError] : s \in {"get_collection", "get"}}

\* lines 11-26 of list_documents, g being what get_all_documents did
ListAnswered(g) ==
    IF g.exc # NoExc
    THEN [NoResp EXCEPT !.handler = "list", !.status = 500, !.generic = TRUE, !.exc = g.exc,
                        !.body = [detail |-> <<"Error retrieving documents. Please try again.">>]]
    ELSE [NoResp EXCEPT !.handler = "list", !.status = 200,
                        !.body = [documents |->
                                    [i \in 1..Len(g.documents) |->
                                        [doc_id |-> g.documents[i].doc_id,
                                         file_name |-> g.documents[i].file_name,
                                         chunks_count |-> g.documents[i].chunks_count,
                                         upload_timestamp |-> "now", last_updated |-> "now"]]]]

list_documents(fault) == ListAnswered(get_all_documents(fault))

----------------------------------------------------------------------------
(* backend/services/vector_store.py: search, and backend/routes/chat.py.   *)
(* A search is what collection.query does during the request: it raises,   *)
(* or returns hits, the nearest chunks with their cosine distances in      *)
(* hundredths, nearest first.                                              *)

RelevanceThreshold == 30

DefaultTopK == 5

Distances == {10, 60, 70, 90, 95}

NoSearch == [exc |-> NoExc, hits |-> <<>>]

\* sequences of k distinct chunks of the collection with non-decreasing distances
HitsOfLength(k) ==
    {h \in [1..k -> chunks \X Distances] :
        /\ \A i, j \in 1..k : i < j => h[i][1] # h[j][1] /\ h[i][2] <= h[j][2]}

\* collection.query(n_results = top_k) returns min(top_k, size) hits
Searches ==
    {[exc |-> IndexError, hits |-> <<>>]}
    \cup UNION {{[exc |-> NoExc, hits |-> h] :
                   h \in HitsOfLength(IF top_k <= Cardinality(chunks) THEN top_k ELSE Cardinality(chunks))} :
                top_k \in (1..MaxTopK) \cup {DefaultTopK}}

\* a variant that reports the distance as the score
search_similar_chunks_distance_as_score(hits) ==
    [i \in 1..Len(hits) |->
        [id |-> hits[i][1].id,
         score |-> hits[i][2],
         payload |-> [file_name |-> hits[i][1].file_name, page |-> hits[i][1].page,
                      chunk_id |-> hits[i][1].chunk_id, text |-> hits[i][1].text,
                      doc_id |-> hits[i][1].doc_id]]]

\* search_similar_chunks: the formatted results, score = 1 - distance
search_similar_chunks(hits) ==
    [i \in 1..Len(hits) |->
        [id |-> hits[i][1].id,
         score |-> 100 - hits[i][2],
         payload |-> [file_name |-> hits[i][1].file_name, page |-> hits[i][1].page,
                      chunk_id |-> hits[i][1].chunk_id, text |-> hits[i][1].text,
                      doc_id |-> hits[i][1].doc_id]]]

\* the requests of the chat specification
ChatQueries ==
    {<<"h","i">>,
     <<"m","a","c","h","i","n","e"," ","l","e","a","r","n","i","n","g">>,
     <<"w","h","a","t"," ","i","s"," ","m","a","c","h","i","n","e"," ","l","e","a","r","n","i","n","g">>}

\* what chat leaves in the client caches, with its response
ChatOutcome(r, L, E) ==
    [resp |-> r, llm_client |-> L.client, llm_error |-> L.error, llm_built |-> L.built,
     emb_client |-> E.client, emb_error |-> E.error, emb_built |-> E.call.built]

\* get_embedding was not called
NoEmbedding ==
    [client |-> embeddings_client, error |-> embeddings_error, call |-> NoCall,
     exc |-> NoExc, remote_called |-> FALSE]

\* the trace of a chat request up to the point it has reached
ChatTrace(greeting, L, E, searched, results) ==
    [NoResp EXCEPT !.handler = "chat", !.greeting = greeting,
                   !.llm_call = CallLog(L), !.hf_call = E.call,
                   !.embed_calls = IF E.call.made THEN 1 ELSE 0,
                   !.search_calls = IF searched THEN 1 ELSE 0,
                   !.results = [i \in 1..Len(results) |-> [id |-> results[i].id, score |-> results[i].score]]]

\* lines 173-181: the except Exception clause of chat
ChatFailed(trace, e) ==
    [trace EXCEPT !.status = 500, !.generic = TRUE, !.exc = e,
                  !.body = [detail |-> <<"Error processing your request: ">> \o e.msg]]

\* a 503 raised inside the handler and re-raised by except HTTPException
ChatUnavailable(trace, detail) ==
    [trace EXCEPT !.status = 503, !.exc = HTTPException(503, detail),
                  !.body = [detail |-> detail]]

\* llm_client.chat.completions.create(...) and the ChatResponse built from it
Completion(trace, L, llm_remote, sources) ==
    IF L.value = None
    THEN ChatFailed(trace, Exc("AttributeError", <<"'NoneType' object has no attribute 'chat'">>))
    ELSE IF llm_remote # NoExc
    THEN ChatFailed([trace EXCEPT !.llm_calls = 1], llm_remote)
    ELSE [trace EXCEPT !.llm_calls = 1, !.status = 200,
                       !.body = [answer |-> "answer", sources |-> sources]]

\* line 93: max_score
MaxScore(results) ==
    IF results = <<>> THEN 0 ELSE SetMax({results[i].score : i \in 1..Len(results)})

\* a gate that compares with <= instead of <
AnswerFromResults_gate_le(trace, L, llm_remote, results) ==
    IF results = <<>> THEN Completion(trace, L, llm_remote, <<>>)
    ELSE IF MaxScore(results) <= RelevanceThreshold
    THEN Completion([trace EXCEPT !.max_score = MaxScore(results)], L, llm_remote, <<>>)
    ELSE Completion([trace EXCEPT !.max_score = MaxScore(results)], L, llm_remote,
                    [i \in 1..Len(results) |->
                        [file_name |-> results[i].payload.file_name,
                         page |-> results[i].payload.page,
                         chunk_id |-> results[i].payload.chunk_id,
                         score |-> results[i].score,
                         text |-> results[i].payload.text]])

\* lines 72-168: no results, low relevance, or RAG mode with one source per result
AnswerFromResults(trace, L, llm_remote, results) ==
    IF results = <<>> THEN Completion(trace, L, llm_remote, <<>>)
    ELSE IF MaxScore(results) < RelevanceThreshold
    THEN Completion([trace EXCEPT !.max_score = MaxScore(results)], L, llm_remote, <<>>)
    ELSE Completion([trace EXCEPT !.max_score = MaxScore(results)], L, llm_remote,
                    [i \in 1..Len(results) |->
                        [file_name |-> results[i].payload.file_name,
                         page |-> results[i].payload.page,
                         chunk_id |-> results[i].payload.chunk_id,
                         score |-> results[i].score,
                         text |-> results[i].payload.text]])

\* lines 62-70 and on, E being what get_embedding(request.query, is_query=True) did
ChatRetrieved(L, E, search, llm_remote) ==
    IF IsValueError(E.exc)
    THEN ChatUnavailable(ChatTrace(FALSE, L, E, FALSE, <<>>),
                         <<"Embedding service is not available: ">> \o E.exc.msg
                            \o <<". Please check your HF_API_KEY environment variable.">>)
    ELSE IF E.exc # NoExc THEN ChatFailed(ChatTrace(FALSE, L, E, FALSE, <<>>), E.exc)
    ELSE IF search.exc # NoExc THEN ChatFailed(ChatTrace(FALSE, L, E, TRUE, <<>>), search.exc)
    ELSE AnswerFromResults([ChatTrace(FALSE, L, E, TRUE, search_similar_chunks(search.hits))
                               EXCEPT !.distances = [i \in 1..Len(search.hits) |-> search.hits[i][2]]],
                           L, llm_remote, search_similar_chunks(search.hits))

\* a variant that embeds the query before it looks for a greeting
ChatWithLlm_embed_first(q, L, E, search, llm_remote) ==
    IF L.exc # NoExc
    THEN ChatOutcome(ChatUnavailable(ChatTrace(FALSE, L, NoEmbedding, FALSE, <<>>),
                                     <<"LLM service is not available: ">> \o L.exc.msg
                                        \o <<". Please check your DEEPSEEK_API_KEY environment variable.">>),
                     L, NoEmbedding)
    ELSE IF is_simple_greeting(q)
    THEN ChatOutcome(Completion(ChatTrace(TRUE, L, E, FALSE, <<>>), L, llm_remote, <<>>),
                     L, E)
    ELSE ChatOutcome(ChatRetrieved(L, E, search, llm_remote), L, E)

\* lines 31-70, L being what get_llm_client() did and E what get_embedding does if
\* it is called
ChatWithLlm(q, L, E, search, llm_remote) ==
    IF L.exc # NoExc
    THEN ChatOutcome(ChatUnavailable(ChatTrace(FALSE, L, NoEmbedding, FALSE, <<>>),
                                     <<"LLM service is not available: ">> \o L.exc.msg
                                        \o <<". Please check your DEEPSEEK_API_KEY environment variable.">>),
                     L, NoEmbedding)
    ELSE IF is_simple_greeting(q)
    THEN ChatOutcome(Completion(ChatTrace(TRUE, L, NoEmbedding, FALSE, <<>>), L, llm_remote, <<>>),
                     L, NoEmbedding)
    ELSE ChatOutcome(ChatRetrieved(L, E, search, llm_remote), L, E)

\* POST /chat
chat(q, llm_ctor, hf_ctor, embed_remote, search, llm_remote) ==
    ChatWithLlm(q,
                get_llm_client(llm_client, llm_error, env.DEEPSEEK_API_KEY, llm_ctor,
                               constructed.deepseek + 1),
                get_embedding(embeddings_client, embeddings_error, env.HF_API_KEY, hf_ctor,
                              constructed.huggingface + 1, embed_remote),
                search, llm_remote)

----------------------------------------------------------------------------
(* backend/routes/chat.py: GET /health, and the connection tests of        *)
(* backend/config.py.                                                      *)

\* the dict a test_*_connection function returns when its try block raised exc
ConnectionStatus(exc) ==
    IF exc = NoExc THEN [status |-> "ok", error |-> None]
    ELSE [status |-> "error", error |-> Some(exc.msg)]

\* test_huggingface_connection: get_embeddings_client, then a feature_extraction call
test_huggingface_connection(E) == ConnectionStatus(E.exc)

\* the body of test_deepseek_connection after the client lookup g
LlmOutcome(g, remote) ==
    [client |-> g.client, error |-> g.error, call |-> CallLog(g),
     exc |-> IF g.exc # NoExc THEN g.exc
             ELSE IF g.value = None
             THEN Exc("AttributeError", <<"'NoneType' object has no attribute 'chat'">>)
             ELSE remote]

\* test_deepseek_connection: get_llm_client, then a chat.completions.create call
test_deepseek_connection(L) == ConnectionStatus(L.exc)

\* test_chromadb_connection: get_collection and peek
test_chromadb_connection(index_exc) == ConnectionStatus(index_exc)

\* get_api_config_status() for the caches emb and llm
get_api_config_status(emb, llm) ==
    [huggingface |-> [api_key_present |-> env.HF_API_KEY,
                      initialized |-> emb.client # None, error |-> emb.error],
     deepseek |-> [api_key_present |-> env.DEEPSEEK_API_KEY,
                   initialized |-> llm.client # None, error |-> llm.error],
     chromadb |-> [initialized |-> TRUE]]

\* a variant for which one reachable service is enough
HealthAnswered_any_ok(E, L, huggingface_status, deepseek_status, chromadb_status) ==
    [resp |-> [NoResp EXCEPT
                 !.handler = "health", !.status = 200,
                 !.hf_call = E.call, !.llm_call = L.call,
                 !.body = [status |-> IF \E st \in {huggingface_status, deepseek_status, chromadb_status} :
                                            st.status = "ok"
                                      THEN "ok" ELSE "degraded",
                           services |-> [huggingface |-> huggingface_status,
                                         deepseek |-> deepseek_status,
                                         chromadb |-> chromadb_status],
                           config |-> get_api_config_status(E, L)]],
     llm_client |-> L.client, llm_error |-> L.error, llm_built |-> L.call.built,
     emb_client |-> E.client, emb_error |-> E.error, emb_built |-> E.call.built]

\* health_check for the three test results
HealthAnswered(E, L, huggingface_status, deepseek_status, chromadb_status) ==
    [resp |-> [NoResp EXCEPT
                 !.handler = "health", !.status = 200,
                 !.hf_call = E.call, !.llm_call = L.call,
                 !.body = [status |-> IF \A st \in {huggingface_status, deepseek_status, chromadb_status} :
                                            st.status = "ok"
                                      THEN "ok" ELSE "degraded",
                           services |-> [huggingface |-> huggingface_status,
                                         deepseek |-> deepseek_status,
                                         chromadb |-> chromadb_status],
                           config |-> get_api_config_status(E, L)]],
     llm_client |-> L.client, llm_error |-> L.error, llm_built |-> L.call.built,
     emb_client |-> E.client, emb_error |-> E.error, emb_built |-> E.call.built]

HealthTested(E, L, index_exc) ==
    HealthAnswered(E, L, test_huggingface_connection(E), test_deepseek_connection(L),
                   test_chromadb_connection(index_exc))

\* GET /health
health_check(hf_ctor, hf_remote, llm_ctor, llm_remote, index_exc) ==
    HealthTested(
        get_embedding(embeddings_client, embeddings_error, env.HF_API_KEY, hf_ctor,
                      constructed.huggingface + 1, hf_remote),
        LlmOutcome(get_llm_client(llm_client, llm_error, env.DEEPSEEK_API_KEY, llm_ctor,
                                  constructed.deepseek + 1),
                   llm_remote),
        index_exc)

----------------------------------------------------------------------------
(* The state machine of the modular backend.                               *)

DocIds == 1..MaxDocs

TaskIds == 1..MaxTasks

\* a request that has not arrived yet
NoTask ==
    [kind |-> "none", pc |-> "new", q |-> <<>>,
     file |-> [name |-> <<>>, size |-> 0, content |-> <<>>, corrupt |-> FALSE],
     doc_id |-> 0, ids |-> {}, resp |-> NoResp]

Init ==
    /\ chunks = {}
    /\ points = {}
    /\ uuids = 0
    /\ env \in [{"HF_API_KEY", "DEEPSEEK_API_KEY"} -> BOOLEAN]
    /\ embeddings_client = None
    /\ embeddings_error = None
    /\ llm_client = None
    /\ llm_error = None
    /\ constructed = [huggingface |-> 0, deepseek |-> 0]
    /\ returned = {}
    /\ query = <<>>
    /\ resp = NoResp
    /\ tasks = [t \in TaskIds |-> NoTask]
    /\ running = 0

\* the constructor outcomes that matter: it is only called on an empty cache
CtorChoices(client, error) ==
    IF client = None /\ error = None THEN CtorOutcomes ELSE {None}

\* the client caches after a request that used them
SetClients(o) ==
    /\ embeddings_client' = o.emb_client
    /\ embeddings_error' = o.emb_error
    /\ llm_client' = o.llm_client
    /\ llm_error' = o.llm_error
    /\ constructed' = [huggingface |-> constructed.huggingface + (IF o.emb_built THEN 1 ELSE 0),
                       deepseek |-> constructed.deepseek + (IF o.llm_built THEN 1 ELSE 0)]

UploadRequest(file, fault, ctor) ==
    \E r \in {upload_document(file, fault, ctor)} :
        /\ r.p.uuids <= MaxDocs
        /\ chunks' = r.p.chunks
        /\ uuids' = r.p.uuids
        /\ embeddings_client' = r.p.client
        /\ embeddings_error' = r.p.error
        /\ constructed' = [constructed EXCEPT
                             !.huggingface = @ + (IF r.p.hf_call.built THEN 1 ELSE 0)]
        /\ returned' = IF r.resp.status = 200
                       THEN returned \cup {[doc_id |-> r.resp.body.doc_id,
                                            chunks_created |-> r.resp.body.chunks_created]}
                       ELSE returned
        /\ resp' = [r.resp EXCEPT !.file_name = file.name, !.file_size = file.size]
        /\ query' = <<>>
        /\ UNCHANGED <<points, env, llm_client, llm_error>>

\* POST /upload
Upload ==
    \E file \in Files, ctor \in CtorChoices(embeddings_client, embeddings_error) :
      \E fault \in IngestFaults(file) :
        UploadRequest(file, fault, ctor) /\ UNCHANGED loop_vars

\* the state after a DELETE request that did r
DeleteApply(r) ==
    /\ chunks' = r.chunks
    /\ resp' = r.resp
    /\ query' = <<>>
    /\ UNCHANGED <<points, uuids, env, returned>>
    /\ UNCHANGED client_vars

DeleteRequest(doc_id, fault) ==
    \E r \in {delete_document(doc_id, fault)} : DeleteApply(r)

\* DELETE /documents/{doc_id}
Delete ==
    \E doc_id \in DocIds, fault \in DeleteFaults :
        DeleteRequest(doc_id, fault) /\ UNCHANGED loop_vars

\* One POST /chat request, the remote calls ending as one of remotes and the
\* search as one of searches.  The inputs of calls the request never makes are fixed.
ChatRequest(q, remotes, searches) ==
    \E llm_ctor \in CtorChoices(llm_client, llm_error) :
      \E L \in {get_llm_client(llm_client, llm_error, env.DEEPSEEK_API_KEY, llm_ctor,
                               constructed.deepseek + 1)} :
        \E hf_ctor \in (IF L.exc = NoExc /\ ~is_simple_greeting(q)
                        THEN CtorChoices(embeddings_client, embeddings_error) ELSE {None}),
           embed_remote \in (IF L.exc = NoExc /\ ~is_simple_greeting(q)
                             THEN remotes ELSE {NoExc}),
           llm_remote \in (IF L.exc = NoExc /\ L.value # None THEN remotes ELSE {NoExc}) :
          \E E \in {get_embedding(embeddings_client, embeddings_error, env.HF_API_KEY, hf_ctor,
                                  constructed.huggingface + 1, embed_remote)} :
            \E search \in (IF L.exc = NoExc /\ ~is_simple_greeting(q) /\ E.exc = NoExc
                           THEN searches ELSE {NoSearch}) :
              \E r \in {chat(q, llm_ctor, hf_ctor, embed_remote, search, llm_remote)} :
                  /\ SetClients(r)
                  /\ resp' = r.resp
                  /\ query' = q
                  /\ UNCHANGED <<chunks, points, uuids, env, returned>>

\* GET /documents
ListDocuments ==
    \E fault \in ListFaults :
        /\ resp' = list_documents(fault)
        /\ query' = <<>>
        /\ UNCHANGED <<chunks, points, uuids, env, returned>>
        /\ UNCHANGED client_vars
        /\ UNCHANGED loop_vars

\* POST /chat
Chat == \E q \in ChatQueries : ChatRequest(q, RemoteOutcomes, Searches) /\ UNCHANGED loop_vars

\* the one upload of the chat specification: a text file of two chunks
ChatUpload ==
    /\ chunks = {}
    /\ \E ctor \in CtorChoices(embeddings_client, embeddings_error) :
          UploadRequest([name |-> <<"a",".","t","x","t">>, size |-> 1, content |-> <<<<"a","b">>>>, corrupt |-> FALSE],
                        NoFault, ctor)
    /\ UNCHANGED loop_vars

\* GET /health
HealthCheck ==
    \E hf_ctor \in CtorChoices(embeddings_client, embeddings_error),
       llm_ctor \in CtorChoices(llm_client, llm_error),
       hf_remote \in RemoteOutcomes, llm_remote \in RemoteOutcomes,
       index_exc \in {NoExc, IndexError} :
        \E r \in {health_check(hf_ctor, hf_remote, llm_ctor, llm_remote, index_exc)} :
            /\ SetClients(r)
            /\ resp' = r.resp
            /\ query' = <<>>
            /\ UNCHANGED <<chunks, points, uuids, env, returned>>
            /\ UNCHANGED loop_vars

\* a credential is set or removed in os.environ
SetEnv ==
    \E k \in DOMAIN env :
        /\ env' = [env EXCEPT ![k] = ~@]
        /\ UNCHANGED <<chunks, points, uuids, returned, query, resp>>
        /\ UNCHANGED client_vars
        /\ UNCHANGED loop_vars

----------------------------------------------------------------------------
(* The event loop.  Every handler is an `async def` that uvicorn runs as a *)
(* task of one asyncio event loop; a task keeps the loop until it awaits.  *)
(* The only await of the handlers is `await file.read()` in upload.py; the *)
(* embedding, completion and index calls are synchronous calls, during     *)
(* which the task keeps the loop (pc "blocked").                           *)

\* the uploads of the event-loop specification: a text of two chunks, and a PDF
\* whose first page has two chunks, whose second is blank and whose third has one
LoopFiles ==
    {[name |-> <<"a",".","t","x","t">>, size |-> 1, content |-> <<<<"a","b">>>>, corrupt |-> FALSE],
     [name |-> <<"m",".","p","d","f">>, size |-> 1, content |-> <<<<"a"," ","b">>, <<" ">>, <<"c">>>>, corrupt |-> FALSE]}

LoopQueries ==
    {<<"h","i">>,
     <<"w","h","a","t"," ","i","s"," ","m","a","c","h","i","n","e"," ","l","e","a","r","n","i","n","g">>}

\* the searches of the event-loop specification: top_k = 1, the nearest chunk at
\* distance 0.10
LoopSearches ==
    {[exc |-> NoExc, hits |-> h] :
        h \in {g \in HitsOfLength(IF chunks = {} THEN 0 ELSE 1) : \A i \in DOMAIN g : g[i][2] = 10}}

\* a variant in which a delete also yields between its two index calls
Yields_between_index_calls(kind) ==
    IF kind = "upload" THEN {"reading"} ELSE IF kind = "delete" THEN {"got"} ELSE {}

\* the positions at which a handler awaits, releasing the event loop
Yields(kind) ==
    IF kind = "upload" THEN {"reading"} ELSE {}

\* request t arrives and the idle loop starts its handler; requests are numbered
\* in the order of their arrival
Arrive(t) ==
    /\ running = 0
    /\ tasks[t].pc = "new"
    /\ \A u \in 1..(t - 1) : tasks[u].pc # "new"

\* the handler of t runs up to its next position pc
RunTo(t, kind, pc, q, file, doc_id) ==
    /\ tasks' = [tasks EXCEPT ![t] = [NoTask EXCEPT !.kind = kind, !.pc = pc, !.q = q,
                                                         !.file = file, !.doc_id = doc_id]]
    /\ running' = IF pc \in Yields(kind) THEN 0 ELSE t

\* the handler of t returns its response
Return(t) ==
    /\ tasks' = [tasks EXCEPT ![t].pc = "done", ![t].resp = resp']
    /\ running' = 0

\* upload.py lines 16-29: the name is checked, then the handler awaits the body
StartUpload(t) ==
    \E file \in LoopFiles :
        /\ Arrive(t)
        /\ uuids + Cardinality({u \in TaskIds : tasks[u].kind = "upload" /\ tasks[u].pc # "done"})
              < MaxDocs
        /\ file.name # <<>> /\ Extension(file.name) \in SupportedExtensions
        /\ RunTo(t, "upload", "reading", <<>>, file, 0)
        /\ UNCHANGED <<chunks, points, uuids, env, returned, query, resp>>
        /\ UNCHANGED client_vars

\* the body has been read and the idle loop resumes the handler
ResumeUpload(t) ==
    /\ running = 0
    /\ tasks[t].kind = "upload" /\ tasks[t].pc \in Yields("upload")
    /\ tasks' = [tasks EXCEPT ![t].pc = "blocked"]
    /\ running' = t
    /\ UNCHANGED <<chunks, points, uuids, env, returned, query, resp>>
    /\ UNCHANGED client_vars

\* upload.py lines 30-76, without an await
FinishUpload(t) ==
    /\ running = t
    /\ tasks[t].kind = "upload" /\ tasks[t].pc = "blocked"
    /\ \E ctor \in CtorChoices(embeddings_client, embeddings_error) :
          UploadRequest(tasks[t].file, NoFault, ctor)
    /\ Return(t)

StartChat(t) ==
    \E q \in LoopQueries :
        /\ Arrive(t)
        /\ RunTo(t, "chat", "blocked", q, NoTask.file, 0)
        /\ UNCHANGED <<chunks, points, uuids, env, returned, query, resp>>
        /\ UNCHANGED client_vars

\* chat.py lines 31-181, without an await
FinishChat(t) ==
    /\ running = t
    /\ tasks[t].kind = "chat" /\ tasks[t].pc = "blocked"
    /\ ChatRequest(tasks[t].q, {NoExc}, LoopSearches)
    /\ Return(t)

\* documents.py line 33 and vector_store.py lines 99-104: collection.get has
\* returned the matching ids
StartDelete(t) ==
    \E doc_id \in DocIds :
        /\ Arrive(t)
        /\ tasks' = [tasks EXCEPT ![t] = [NoTask EXCEPT !.kind = "delete", !.pc = "got",
                                                             !.doc_id = doc_id,
                                                             !.ids = MatchingIds(doc_id)]]
        /\ running' = IF "got" \in Yields("delete") THEN 0 ELSE t
        /\ UNCHANGED <<chunks, points, uuids, env, returned, query, resp>>
        /\ UNCHANGED client_vars

\* vector_store.py lines 106-110 and documents.py lines 35-45
FinishDelete(t) ==
    /\ tasks[t].kind = "delete" /\ tasks[t].pc = "got"
    /\ running = IF "got" \in Yields("delete") THEN 0 ELSE t
    /\ \E fault \in DeleteFaults :
          \E r \in {DeleteAnswered(tasks[t].doc_id, DeleteGot(tasks[t].ids, fault))} :
              DeleteApply(r)
    /\ Return(t)

\* a step of request t
TaskStep(t) ==
    \/ StartUpload(t) \/ ResumeUpload(t) \/ FinishUpload(t)
    \/ StartChat(t) \/ FinishChat(t)
    \/ StartDelete(t) \/ FinishDelete(t)

InitLoop == Init /\ env = [k \in {"HF_API_KEY", "DEEPSEEK_API_KEY"} |-> TRUE]

NextLoop == \E t \in TaskIds : TaskStep(t)

SpecLoop == InitLoop /\ [][NextLoop]_vars

----------------------------------------------------------------------------
(* Extraction inputs: every PDF, DOCX and TXT of up to MaxPages pages,     *)
(* paragraphs or lines drawn from PageTexts, as the file of an upload      *)
(* whose body has been read.                                               *)

PageTexts == {<<>>, <<" ">>, <<"a">>, <<"\n","b"," ">>}

ExtractNames == {<<"x",".","p","d","f">>, <<"x",".","d","o","c","x">>, <<"x",".","t","x","t">>}

ExtractFiles ==
    {[name |-> n, size |-> 1, content |-> c, corrupt |-> FALSE] :
        n \in ExtractNames, c \in UNION {[1..k -> PageTexts] : k \in 1..MaxPages}}

InitExtract ==
    /\ chunks = {}
    /\ points = {}
    /\ uuids = 0
    /\ env = [k \in {"HF_API_KEY", "DEEPSEEK_API_KEY"} |-> TRUE]
    /\ embeddings_client = None
    /\ embeddings_error = None
    /\ llm_client = None
    /\ llm_error = None
    /\ constructed = [huggingface |-> 0, deepseek |-> 0]
    /\ returned = {}
    /\ query = <<>>
    /\ resp = NoResp
    /\ \E file \in ExtractFiles :
          tasks = [t \in TaskIds |->
                     IF t = 1
                     THEN [NoTask EXCEPT !.kind = "upload", !.pc = "blocked", !.file = file]
                     ELSE NoTask]
    /\ running = 1

NextExtract == FinishUpload(1)

SpecExtract == InitExtract /\ [][NextExtract]_vars

\* the ingestion specification starts with the language-model credential set
InitIngest == Init /\ env.DEEPSEEK_API_KEY

Next == Upload \/ Delete

Spec == InitIngest /\ [][Next]_vars

NextDocs == Upload \/ Delete \/ ListDocuments

SpecDocs == InitIngest /\ [][NextDocs]_vars

NextChat == ChatUpload \/ Chat

SpecChat == Init /\ [][NextChat]_vars

NextClients == HealthCheck \/ SetEnv

SpecClients == Init /\ [][NextClients]_vars

\* the queries is_simple_greeting is applied to: every string of at most
\* MaxQueryLen characters of a small alphabet, every phrase of at most MaxWords
\* words, and the examples of the documentation
QueryAlphabet == {"h", "i", "H", " ", "z"}

QueryWords == {<<"h","i">>, <<"h","e","y">>, <<"m","a","c","h","i","n","e">>}

RECURSIVE JoinWords(_)
JoinWords(ws) ==
    IF Len(ws) = 0 THEN <<>>
    ELSE IF Len(ws) = 1 THEN ws[1]
    ELSE ws[1] \o <<" ">> \o JoinWords(Tail(ws))

GreetingInputs ==
    UNION {[1..n -> QueryAlphabet] : n \in 0..MaxQueryLen}
    \cup {JoinWords(ws) : ws \in UNION {[1..n -> QueryWords] : n \in 1..MaxWords}}
    \cup {<<"H","e","l","l","o">>, <<"h","o","w"," ","a","r","e"," ","y","o","u">>, <<"w","h","a","t"," ","i","s"," ","m","a","c","h","i","n","e"," ","l","e","a","r","n","i","n","g">>, <<"m","a","c","h","i","n","e"," ","l","e","a","r","n","i","n","g">>, <<" "," ","H","i"," ">>, <<"h","i","s","t","o","r","y"," ","o","f"," ","r","o","m","e">>, <<"G","o","o","d"," ","M","o","r","n","i","n","g"," ","e","v","e","r","y","o","n","e">>}

InitGreeting ==
    /\ chunks = {}
    /\ points = {}
    /\ uuids = 0
    /\ env = [k \in {"HF_API_KEY", "DEEPSEEK_API_KEY"} |-> TRUE]
    /\ embeddings_client = None
    /\ embeddings_error = None
    /\ llm_client = None
    /\ llm_error = None
    /\ constructed = [huggingface |-> 0, deepseek |-> 0]
    /\ returned = {}
    /\ query \in GreetingInputs
    /\ resp = NoResp
    /\ tasks = [t \in TaskIds |-> NoTask]
    /\ running = 0

\* one call of is_simple_greeting(query)
Classify ==
    /\ resp.handler = "none"
    /\ resp' = [NoResp EXCEPT !.handler = "is_simple_greeting",
                              !.greeting = is_simple_greeting(query)]
    /\ UNCHANGED <<chunks, points, uuids, env, returned, query>>
    /\ UNCHANGED client_vars
    /\ UNCHANGED loop_vars

NextGreeting == Classify

SpecGreeting == InitGreeting /\ [][NextGreeting]_vars

----------------------------------------------------------------------------
(* main.py: the legacy single-file application, on a Qdrant collection.    *)
(* Its OpenAI clients are built at import, which fails without the key, so *)
(* a running process always has them.  Its extract_text functions (lines   *)
(* 68-109) are copies of those of backend/services/document_processor.py.  *)

ScrollLimit == 1000

MainFailedDetail == <<"Error processing document. Please check the file format and try again.">>

\* the except Exception clause of upload_document (lines 196-199): every
\* exception, an HTTPException included, becomes a 500
MainUploadFailed(exc, tmp) ==
    [resp |-> [NoResp EXCEPT !.handler = "main_upload", !.status = 500, !.generic = TRUE,
                             !.exc = exc, !.body = [detail |-> MainFailedDetail],
                             !.tmp_written = tmp, !.tmp_removed = tmp, !.extracted = tmp],
     points |-> points, uuids |-> uuids]

MainFaults(file) ==
    {NoFault}
    \cup {[stage |-> "upsert", at |-> 0, exc |-> Exc("QdrantError", <<"Connection refused">>)]}
    \cup {[stage |-> "embed", at |-> k, exc |-> Exc("APIConnectionError", <<"Connection error.">>)] :
             k \in 1..Pieces(Join(file.content, <<>>))}

\* lines 142-194 for the extraction result ex and the pieces todo of its pages
MainProcessed(file, fault, ex, todo, doc_id) ==
    IF ex.exc # NoExc THEN MainUploadFailed(ex.exc, TRUE)
    ELSE IF ex.pages = <<>>
    THEN MainUploadFailed(HTTPException(400, <<"No text could be extracted from the document.">>), TRUE)
    ELSE IF fault.stage = "embed" /\ fault.at <= Len(todo)
    THEN [MainUploadFailed(fault.exc, TRUE) EXCEPT !.resp.embed_calls = fault.at]
    ELSE IF fault.stage = "upsert"
    THEN [MainUploadFailed(fault.exc, TRUE) EXCEPT !.resp.embed_calls = Len(todo)]
    ELSE [resp |-> [NoResp EXCEPT
                      !.handler = "main_upload", !.status = 200, !.doc_id = doc_id,
                      !.tmp_written = TRUE, !.tmp_removed = TRUE, !.extracted = TRUE,
                      !.embed_calls = Len(todo), !.index_writes = 1,
                      !.body = [message |-> <<"Document uploaded and processed successfully">>,
                                doc_id |-> doc_id, file_name |-> file.name,
                                chunks_created |-> Len(todo)]],
          points |-> points \cup
                     {[id |-> <<doc_id, i>>, doc_id |-> doc_id, file_name |-> file.name,
                       page |-> todo[i].page, chunk_id |-> i - 1, text |-> todo[i]] :
                        i \in 1..Len(todo)},
          uuids |-> uuids + 1]

\* upload_document of main.py (lines 127-199)
main_upload_document(file, fault) ==
    IF Extension(file.name) \notin SupportedExtensions
    THEN MainUploadFailed(
             HTTPException(400, <<"Unsupported file type. Only PDF, DOCX, and TXT are supported.">>),
             FALSE)
    ELSE MainProcessed(file, fault, extract_text(file), AllPieces(extract_text(file).pages), uuids + 1)

MainDeleteFaults ==
    {NoFault} \cup {[stage |-> s, at |-> 0, exc |-> Exc("QdrantError", <<"Connection refused">>)] :
                       s \in {"scroll", "delete"}}

\* the except Exception clause of delete_document (lines 299-302)
MainDeleteFailed(doc_id, exc, matched) ==
    [resp |-> [NoResp EXCEPT !.handler = "main_delete", !.doc_id = doc_id, !.matched = matched,
                             !.status = 500, !.generic = TRUE, !.exc = exc,
                             !.body = [detail |-> <<"Error deleting document. Please try again.">>]],
     points |-> points]

\* lines 288-297 for the points the scroll returned (at most ScrollLimit of them)
MainDeleteFound(doc_id, fault, point_ids) ==
    IF point_ids # {}
    THEN IF fault.stage = "delete"
         THEN MainDeleteFailed(doc_id, fault.exc, Cardinality(point_ids))
         ELSE [resp |-> [NoResp EXCEPT
                           !.handler = "main_delete", !.doc_id = doc_id,
                           !.matched = Cardinality(point_ids),
                           !.status = 200, !.index_writes = 1,
                           !.body = [message |-> [template |-> "Deleted {len(point_ids)} chunks for document {doc_id}",
                                                  deleted_count |-> Cardinality(point_ids),
                                                  doc_id |-> doc_id]]],
               points |-> {p \in points : p.id \notin point_ids}]
    ELSE MainDeleteFailed(doc_id, HTTPException(404, <<"Document not found">>), 0)

\* the first ScrollLimit elements of a scroll over the matching points
Scrolled(match) ==
    IF Cardinality(match) <= ScrollLimit THEN match
    ELSE CHOOSE S \in SUBSET match : Cardinality(S) = ScrollLimit

\* delete_document of main.py (lines 271-302)
main_delete_document(doc_id, fault) ==
    IF fault.stage = "scroll" THEN MainDeleteFailed(doc_id, fault.exc, 0)
    ELSE MainDeleteFound(doc_id, fault,
                         Scrolled({p.id : p \in {p \in points : p.doc_id = doc_id}}))

\* POST /upload of main.py
MainUpload ==
    \E file \in Files :
      \E fault \in MainFaults(file) :
        \E r \in {main_upload_document(file, fault)} :
            /\ r.uuids <= MaxDocs
            /\ points' = r.points
            /\ uuids' = r.uuids
            /\ resp' = r.resp
            /\ query' = <<>>
            /\ UNCHANGED <<chunks, env, returned>>
            /\ UNCHANGED client_vars
            /\ UNCHANGED loop_vars

\* DELETE /documents/{doc_id} of main.py
MainDelete ==
    \E doc_id \in DocIds, fault \in MainDeleteFaults :
        \E r \in {main_delete_document(doc_id, fault)} :
            /\ points' = r.points
            /\ resp' = r.resp
            /\ query' = <<>>
            /\ UNCHANGED <<chunks, uuids, env, returned>>
            /\ UNCHANGED client_vars
            /\ UNCHANGED loop_vars

InitLegacy == Init /\ env = [k \in {"HF_API_KEY", "DEEPSEEK_API_KEY"} |-> TRUE]

NextLegacy == MainUpload \/ MainDelete

SpecLegacy == InitLegacy /\ [][NextLegacy]_vars

\* C3: in both DELETE handlers, deleting a doc_id that matches no chunk (the index
\* calls succeeding) answers 404 and leaves the index unchanged.
C3_DeleteUnknownIs404 ==
    [][resp'.handler \in {"delete", "main_delete"} /\ resp'.matched = 0
         /\ resp'.exc.type \notin IndexErrorTypes
       => resp'.status = 404 /\ chunks' = chunks /\ points' = points]_vars

----------------------------------------------------------------------------
(* Properties of ingestion and deletion (specification Spec).              *)

ReturnedIds == {r.doc_id : r \in returned}

\* C1: ingestion is all-or-nothing: an upload that does not answer 200 (its
\* extraction, a split or the embedding of any chunk failed) leaves the collection
\* exactly as it was, and no chunk in the collection belongs to a document whose
\* upload did not succeed.
C1_AllOrNothing ==
    /\ [][resp'.handler = "upload" /\ resp'.status # 200 => chunks' = chunks]_vars
    /\ [](\A c \in chunks : c.doc_id \in ReturnedIds)

\* an upload failed at the embedding of a middle chunk while the collection held
\* another document
C1_Witness ==
    /\ resp.handler = "upload" /\ resp.status = 500
    /\ resp.exc.type = "HfHubHTTPError" /\ resp.embed_calls = 2
    /\ chunks # {}

\* C2 as stated: the first DELETE of an uploaded document carries the count in a
\* deleted_count field equal to chunks_created, and a later DELETE answers 404.
C2_DeletedCountField ==
    [][\A r \in returned :
         resp'.handler = "delete" /\ resp'.doc_id = r.doc_id /\ resp'.exc.type \notin IndexErrorTypes
         => IF \E c \in chunks : c.doc_id = r.doc_id
            THEN /\ resp'.status = 200
                 /\ "deleted_count" \in DOMAIN resp'.body
                 /\ resp'.body.deleted_count = r.chunks_created
            ELSE resp'.status = 404]_vars

\* C2 (amended): when the index calls succeed, the first DELETE of an uploaded
\* document answers 200 with a body that has the one field message, whose text
\* states a deleted count equal to chunks_created, and removes its chunks; a later
\* DELETE of it answers 404.
C2_RoundTrip ==
    [][\A r \in returned :
         resp'.handler = "delete" /\ resp'.doc_id = r.doc_id /\ resp'.exc.type \notin IndexErrorTypes
         => IF \E c \in chunks : c.doc_id = r.doc_id
            THEN /\ resp'.status = 200
                 /\ DOMAIN resp'.body = {"message"}
                 /\ resp'.body.message.deleted_count = r.chunks_created
                 /\ ~ \E c \in chunks' : c.doc_id = r.doc_id
            ELSE resp'.status = 404]_vars

\* a second DELETE of an uploaded document has answered 404
C2_Witness ==
    /\ resp.handler = "delete" /\ resp.status = 404
    /\ resp.doc_id \in ReturnedIds

\* C9 as stated: an upload refused by validation answers 400 and an upload that
\* fails while processing (extraction, embedding, index) answers 500.
C9_UploadStatusByKind ==
    resp.handler = "upload" /\ resp.exc # NoExc
    => IF resp.extracted THEN resp.status = 500 ELSE resp.status = 400

\* C14 as stated: an upload whose name does not end with a dot followed by pdf,
\* docx, doc or txt (in any case) is answered 400 before a temporary file is
\* written and before any extraction, embedding call or index write.
C14_SuffixRequired ==
    /\ resp.handler = "upload"
    /\ ~ \E k \in 1..Len(resp.file_name) :
            /\ resp.file_name[k] = "."
            /\ Lower(SubSeq(resp.file_name, k + 1, Len(resp.file_name))) \in SupportedExtensions
    => /\ resp.status = 400
       /\ ~resp.tmp_written /\ ~resp.extracted
       /\ resp.embed_calls = 0 /\ resp.index_writes = 0

\* C15: an upload of a 0-byte file whose name has a supported suffix is answered
\* 400, and during the request no temporary file is written, nothing is extracted,
\* no embeddings client is looked up, no embedding call is made and the index is
\* left as it was.
C15_EmptyFileRejected ==
    [][/\ resp'.handler = "upload" /\ resp'.file_size = 0
       /\ \E k \in 1..Len(resp'.file_name) :
             /\ resp'.file_name[k] = "."
             /\ Lower(SubSeq(resp'.file_name, k + 1, Len(resp'.file_name))) \in SupportedExtensions
       => /\ resp'.status = 400
          /\ ~resp'.tmp_written /\ ~resp'.extracted
          /\ resp'.embed_calls = 0 /\ ~resp'.hf_call.made /\ resp'.index_writes = 0
          /\ chunks' = chunks /\ returned' = returned]_vars

\* a 0-byte text file was refused while the index held a document
C15_Witness ==
    /\ resp.handler = "upload" /\ resp.file_size = 0 /\ resp.status = 400
    /\ resp.file_name = <<"e",".","t","x","t">>
    /\ chunks # {}

----------------------------------------------------------------------------
(* Properties of POST /chat (specification SpecChat).                      *)

\* C4: the sources of an answered chat request are non-empty exactly when the
\* query is not a greeting, the search returned results and their maximum score
\* reaches the threshold 0.3; then there is one source per result, in the order
\* of the results and with their scores, whatever the score of each.
C4_SourcesGate ==
    resp.handler = "chat" /\ resp.status = 200
    => LET n == Len(resp.results)
           relevant == /\ ~is_simple_greeting(query)
                       /\ \E i \in 1..n : resp.results[i].score >= RelevanceThreshold
       IN  /\ resp.body.sources # <<>> <=> relevant
           /\ relevant => /\ Len(resp.body.sources) = n
                          /\ \A i \in 1..n : resp.body.sources[i].score = resp.results[i].score

\* RAG mode has returned two sources, one of them with a score below the threshold
C4_Witness ==
    /\ resp.handler = "chat" /\ resp.status = 200
    /\ Len(resp.body.sources) = 2
    /\ \E i \in 1..2 : resp.body.sources[i].score < RelevanceThreshold
    /\ \E i \in 1..2 : resp.body.sources[i].score >= RelevanceThreshold

\* C13: in RAG mode the scores of the sources are non-increasing, each is 1 minus
\* the distance the index reported for that result, and the max_score of the gate
\* is the greatest of them.
C13_ScoresOfSources ==
    resp.handler = "chat" /\ resp.status = 200 /\ resp.body.sources # <<>>
    => LET sources == resp.body.sources
           n == Len(sources)
       IN  /\ n = Len(resp.distances)
           /\ \A i \in 1..n : sources[i].score = 100 - resp.distances[i]
           /\ \A i, j \in 1..n : i < j => sources[i].score >= sources[j].score
           /\ \E i \in 1..n : resp.max_score = sources[i].score
           /\ \A i \in 1..n : resp.max_score >= sources[i].score

\* RAG mode has returned two sources with different scores
C13_Witness ==
    /\ resp.handler = "chat" /\ resp.status = 200
    /\ Len(resp.body.sources) = 2
    /\ resp.body.sources[1].score > resp.body.sources[2].score
    /\ resp.max_score = resp.body.sources[1].score

\* C6: a chat request whose query is classified as a greeting makes no embedding
\* call, no embeddings client lookup and no search, leaves the embeddings client
\* cache alone, and has no sources when it is answered.
C6_GreetingSkipsRetrieval ==
    [][resp'.handler = "chat" /\ is_simple_greeting(query')
       => /\ resp'.embed_calls = 0 /\ ~resp'.hf_call.made
          /\ resp'.search_calls = 0
          /\ embeddings_client' = embeddings_client /\ embeddings_error' = embeddings_error
          /\ resp'.status = 200 => resp'.body.sources = <<>>]_vars

\* a greeting was answered by the language model while the index held chunks
C6_Witness ==
    /\ resp.handler = "chat" /\ resp.status = 200 /\ resp.greeting
    /\ query = <<"h","i">>
    /\ resp.llm_calls = 1
    /\ chunks # {}

\* C7 as stated: a chat request that fails answers 500 when the vector index
\* failed and 503 in every other case (a missing credential, a client that could
\* not be built, a failed embedding call, a failed chat-completion call).
C7_UnavailableIs503 ==
    resp.handler = "chat" /\ resp.status \notin {0, 200}
    => IF resp.exc.type \in IndexErrorTypes THEN resp.status = 500 ELSE resp.status = 503

\* C8 as stated: the detail of a response of the generic failure path does not
\* contain the text of the exception that was caught.
C8_NoExceptionText ==
    resp.generic => ~Contains(resp.body.detail, resp.exc)

----------------------------------------------------------------------------
(* Properties of the client caches (specification SpecClients).            *)

\* C10 as stated: a get_embeddings_client or get_llm_client call made after a
\* failed initialization raises without initializing again, and one made after a
\* successful initialization returns the cached client without initializing again.
C10_CachedOutcome ==
    [][resp'.handler = "health" /\ env' = env
       => /\ embeddings_error # None
             => /\ resp'.hf_call.raised /\ ~resp'.hf_call.attempted
                /\ embeddings_error' = embeddings_error /\ embeddings_client' = None
          /\ llm_error # None
             => /\ resp'.llm_call.raised /\ ~resp'.llm_call.attempted
                /\ llm_error' = llm_error /\ llm_client' = None
          /\ embeddings_client # None
             => /\ ~resp'.hf_call.raised /\ ~resp'.hf_call.attempted
                /\ resp'.hf_call.value = embeddings_client
                /\ embeddings_client' = embeddings_client
          /\ llm_client # None
             => /\ ~resp'.llm_call.raised /\ ~resp'.llm_call.attempted
                /\ resp'.llm_call.value = llm_client
                /\ llm_client' = llm_client]_vars

\* C18: GET /health always answers 200; its status is "ok" exactly when the three
\* service checks report "ok" and "degraded" otherwise, in particular whenever a
\* client initialization error was cached before the request.
C18_HealthStatus ==
    /\ [](resp.handler = "health"
          => /\ resp.status = 200 /\ resp.exc = NoExc
             /\ resp.body.status \in {"ok", "degraded"}
             /\ resp.body.status = "ok"
                <=> /\ resp.body.services.huggingface.status = "ok"
                    /\ resp.body.services.deepseek.status = "ok"
                    /\ resp.body.services.chromadb.status = "ok")
    /\ [][resp'.handler = "health" /\ env' = env
             /\ (embeddings_error # None \/ llm_error # None)
          => resp'.body.status = "degraded"]_vars

\* the language-model client failed to initialize, the other two services are
\* reachable, and the health check reports degraded
C18_Witness ==
    /\ resp.handler = "health" /\ resp.body.status = "degraded"
    /\ llm_error # None
    /\ resp.body.services.deepseek.status = "error"
    /\ resp.body.services.huggingface.status = "ok"
    /\ resp.body.services.chromadb.status = "ok"

----------------------------------------------------------------------------
(* Properties of greeting detection (specification SpecGreeting).          *)

\* C5 as stated: a query is a greeting exactly when, lower-cased and trimmed, it
\* is a member of the greeting phrases or starts with one.
C5_MemberOrPrefixOnly ==
    resp.handler = "is_simple_greeting"
    => (resp.greeting
        <=> \E i \in 1..Len(greetings) : StartsWith(Strip(Lower(query)), greetings[i]))

\* C5 (amended): a query is a greeting exactly when, lower-cased and trimmed, it is
\* a member of the greeting phrases, starts with one, or has at most two
\* whitespace-separated tokens; "hi", "Hello", "how are you", "machine learning"
\* and the empty query are greetings, "what is machine learning" is not.
C5_MemberPrefixOrShort ==
    resp.handler = "is_simple_greeting"
    => LET s == Strip(Lower(query))
           starts == {i \in 1..Len(s) : s[i] \notin Whitespace /\ (i = 1 \/ s[i - 1] \in Whitespace)}
       IN  /\ resp.greeting
              <=> \/ Cardinality(starts) <= 2
                  \/ \E i \in 1..Len(greetings) :
                        Len(greetings[i]) <= Len(s)
                        /\ \A j \in 1..Len(greetings[i]) : s[j] = greetings[i][j]
           /\ query \in {<<"h","i">>, <<"H","e","l","l","o">>, <<"h","o","w"," ","a","r","e"," ","y","o","u">>, <<"m","a","c","h","i","n","e"," ","l","e","a","r","n","i","n","g">>, <<>>} => resp.greeting
           /\ query = <<"w","h","a","t"," ","i","s"," ","m","a","c","h","i","n","e"," ","l","e","a","r","n","i","n","g">> => ~resp.greeting

\* a two-word query that matches no greeting phrase has been classified
C5_Witness ==
    /\ resp.handler = "is_simple_greeting"
    /\ query = <<"m","a","c","h","i","n","e"," ","l","e","a","r","n","i","n","g">>
    /\ resp.greeting

\* the doc_ids GET /documents has entries for in the current state of the index
ListedIds ==
    {e.doc_id : e \in DocumentsMap}

\* C20: the documents listed are those returned by successful uploads and not
\* deleted since.  Nothing is listed before the first upload; a successful upload
\* adds the doc_id it returns; a failed upload adds nothing; a delete that answers
\* 200 removes exactly the entry of its doc_id and any other delete removes none;
\* an answered listing shows exactly these doc_ids, all of them returned by an
\* upload, and its chunks_count values add up to the number of chunks in the index.
C20_ListingFollowsUploadsAndDeletes ==
    /\ [](returned = {} => ListedIds = {})
    /\ [][/\ resp'.handler = "upload" /\ resp'.status = 200
             => resp'.body.doc_id \notin ListedIds /\ ListedIds' = ListedIds \cup {resp'.body.doc_id}
          /\ resp'.handler = "upload" /\ resp'.status # 200 => ListedIds' = ListedIds
          /\ resp'.handler = "delete" /\ resp'.status = 200
             => resp'.doc_id \in ListedIds /\ ListedIds' = ListedIds \ {resp'.doc_id}
          /\ resp'.handler = "delete" /\ resp'.status # 200 => ListedIds' = ListedIds
          /\ resp'.handler = "list" => ListedIds' = ListedIds]_vars
    /\ [](resp.handler = "list" /\ resp.status = 200
          => LET docs == resp.body.documents
             IN  /\ {docs[i].doc_id : i \in 1..Len(docs)} = ListedIds
                 /\ ListedIds \subseteq ReturnedIds
                 /\ SumSeq([i \in 1..Len(docs) |-> docs[i].chunks_count]) = Cardinality(chunks))

\* two documents were uploaded, one of them was deleted, and the listing shows the
\* one document that is left
C20_Witness ==
    /\ resp.handler = "list" /\ resp.status = 200
    /\ Cardinality(returned) = 2
    /\ Len(resp.body.documents) = 1
    /\ resp.body.documents[1].chunks_count = Cardinality(chunks)

----------------------------------------------------------------------------
(* Properties of concurrent requests (specification SpecLoop).             *)

\* C16: the chunks stored for a document that was ingested with n chunks carry the
\* chunk_id values 0..n-1, each once, in the order of extraction: by page, and by
\* the order of the split within a page; every document starts at 0, also when
\* uploads interleave.
C16_ChunkIds ==
    \A r \in returned :
        LET cs == {c \in chunks : c.doc_id = r.doc_id}
        IN  cs # {}
            => /\ Cardinality(cs) = r.chunks_created
               /\ {c.chunk_id : c \in cs} = 0..(r.chunks_created - 1)
               /\ \A c, d \in cs :
                     c.chunk_id < d.chunk_id
                     <=> \/ c.page < d.page
                         \/ c.page = d.page /\ c.text.piece < d.text.piece

\* two uploads were in flight together, the second to arrive finished first, and
\* the documents of both are stored, one of them a PDF with chunks on pages 1 and 3
C16_Witness ==
    /\ tasks[1].kind = "upload" /\ tasks[2].kind = "upload"
    /\ tasks[1].resp.status = 200 /\ tasks[2].resp.status = 200
    /\ tasks[2].resp.doc_id < tasks[1].resp.doc_id
    /\ \A r \in returned : \E c \in chunks : c.doc_id = r.doc_id
    /\ \E c, d \in chunks : c.doc_id = d.doc_id /\ c.page = 1 /\ d.page = 3

\* C11: under every interleaving of the handlers at most one client object is
\* constructed per service, a cache that holds a client or an error is never
\* written again, and all requests that looked a client up were given the same
\* client, or all the same error.
C11_InitOnce ==
    /\ [](constructed.huggingface <= 1 /\ constructed.deepseek <= 1)
    /\ [][/\ embeddings_client # None \/ embeddings_error # None
             => embeddings_client' = embeddings_client /\ embeddings_error' = embeddings_error
          /\ llm_client # None \/ llm_error # None
             => llm_client' = llm_client /\ llm_error' = llm_error]_vars
    /\ [](\A t, u \in TaskIds :
            /\ tasks[t].resp.hf_call.made /\ tasks[u].resp.hf_call.made
               => /\ tasks[t].resp.hf_call.value = tasks[u].resp.hf_call.value
                  /\ tasks[t].resp.hf_call.raised = tasks[u].resp.hf_call.raised
            /\ tasks[t].resp.llm_call.made /\ tasks[u].resp.llm_call.made
               => /\ tasks[t].resp.llm_call.value = tasks[u].resp.llm_call.value
                  /\ tasks[t].resp.llm_call.raised = tasks[u].resp.llm_call.raised)

\* an upload arrived first and awaited its body; a chat request that arrived later
\* built the embeddings client; the upload then resumed and was given that client
C11_Witness ==
    /\ tasks[1].kind = "upload" /\ tasks[1].pc = "done"
    /\ tasks[2].kind = "chat" /\ tasks[2].pc = "done"
    /\ tasks[2].resp.hf_call.built
    /\ tasks[1].resp.hf_call.made /\ ~tasks[1].resp.hf_call.built
    /\ tasks[1].resp.hf_call.value = tasks[2].resp.hf_call.value
    /\ tasks[1].resp.hf_call.value # None

----------------------------------------------------------------------------
(* Properties of the document listing (specification SpecDocs).            *)

\* C12: an answered GET /documents has exactly one entry per doc_id of the index,
\* each with the number of chunks stored for that doc_id, in ascending order of
\* file name; with the chunks of two uploads in the index it has two entries.
C12_ListingPerDocument ==
    resp.handler = "list" /\ resp.status = 200
    => LET docs == resp.body.documents
           n == Len(docs)
       IN  /\ {docs[i].doc_id : i \in 1..n} = {c.doc_id : c \in chunks}
           /\ \A i, j \in 1..n : docs[i].doc_id = docs[j].doc_id => i = j
           /\ \A i \in 1..n :
                 docs[i].chunks_count = Cardinality({c \in chunks : c.doc_id = docs[i].doc_id})
           /\ \A i, j \in 1..n : i < j => ~StrLess(docs[j].file_name, docs[i].file_name)
           /\ Cardinality(returned) = 2 /\ (\A r \in returned : \E c \in chunks : c.doc_id = r.doc_id)
              => n = 2

\* two documents are listed, and the one uploaded last comes first
C12_Witness ==
    /\ resp.handler = "list" /\ resp.status = 200
    /\ Len(resp.body.documents) = 2
    /\ resp.body.documents[1].doc_id > resp.body.documents[2].doc_id
    /\ StrLess(resp.body.documents[1].file_name, resp.body.documents[2].file_name)

\* C19: the DELETE request of d that completes removes exactly the chunks whose
\* doc_id is d, answers 200 with a count equal to the number of chunks it removed
\* (404 when it removed none, nothing removed when the index fails), and of two
\* deletes of the same d at most one reports a count above zero.
C19_DeleteRemovesItsChunks ==
    /\ [][\A t \in TaskIds :
            tasks[t].kind = "delete" /\ tasks[t].pc # "done" /\ tasks'[t].pc = "done"
            => LET removed == chunks \ chunks'
               IN  /\ chunks' \subseteq chunks
                   /\ \A c \in removed : c.doc_id = tasks[t].doc_id
                   /\ IF resp'.exc.type \in IndexErrorTypes
                      THEN removed = {} /\ resp'.status = 500
                      ELSE /\ removed = {c \in chunks : c.doc_id = tasks[t].doc_id}
                           /\ IF removed = {} THEN resp'.status = 404
                              ELSE /\ resp'.status = 200
                                   /\ resp'.body.message.deleted_count = Cardinality(removed)]_vars
    /\ [](\A t, u \in TaskIds :
            /\ t # u
            /\ tasks[t].kind = "delete" /\ tasks[u].kind = "delete"
            /\ tasks[t].doc_id = tasks[u].doc_id
            => ~(tasks[t].resp.status = 200 /\ tasks[u].resp.status = 200))

\* after an upload, two deletes of its document have completed: one removed its
\* chunks and the other found none
C19_Witness ==
    \E t, u \in TaskIds :
        /\ tasks[t].kind = "delete" /\ tasks[u].kind = "delete"
        /\ tasks[t].doc_id = tasks[u].doc_id
        /\ tasks[t].resp.status = 200 /\ tasks[t].resp.body.message.deleted_count >= 2
        /\ tasks[u].resp.status = 404

\* C17 as stated: while a chat or upload request is inside an embedding call or a
\* language-model call, another request that has arrived, or whose body has been
\* read, can take a step.
C17_CallsDoNotBlock ==
    \A t \in TaskIds :
        /\ tasks[t].pc = "blocked"
        /\ \/ tasks[t].kind = "upload" /\ embeddings_client # None
           \/ tasks[t].kind = "chat" /\ is_simple_greeting(tasks[t].q) /\ llm_client # None
        /\ \E u \in TaskIds \ {t} : tasks[u].pc \in {"new", "reading"}
        => ENABLED (\E u \in TaskIds \ {t} : TaskStep(u))


----------------------------------------------------------------------------
(* Properties of the client lookups' results (specification SpecClients).  *)

\* C21 as stated: a get_embeddings_client or get_llm_client call that does not
\* raise returns a client (never None), and at most one of the cached client and
\* the cached error of a service is set.
C21_ClientOrRaise ==
    /\ ~(embeddings_client # None /\ embeddings_error # None)
    /\ ~(llm_client # None /\ llm_error # None)
    /\ resp.handler = "health"
       => /\ resp.hf_call.made /\ ~resp.hf_call.raised => resp.hf_call.value # None
          /\ resp.llm_call.made /\ ~resp.llm_call.raised => resp.llm_call.value # None


----------------------------------------------------------------------------
(* Properties of the temporary file of POST /upload (specification Spec).  *)

\* C22: a POST /upload request that wrote a temporary file has removed it when it
\* answers, whether processing succeeded or failed at extraction, embedding or
\* the index write.
C22_TempFileRemoved ==
    resp.handler = "upload" /\ resp.tmp_written => resp.tmp_removed

\* an upload whose embeddings were all computed failed at the index write, after
\* its temporary file was written
C22_Witness ==
    /\ resp.handler = "upload" /\ resp.status = 500
    /\ resp.exc.type \in IndexErrorTypes /\ resp.embed_calls > 0
    /\ resp.tmp_written /\ resp.tmp_removed


----------------------------------------------------------------------------
(* Properties of text extraction (specification SpecExtract).              *)

\* the text has no character other than whitespace (an empty text included)
Blank(text) == \A j \in 1..Len(text) : text[j] \in Whitespace

\* C23: the pages extract_text returns for an uploaded PDF, DOCX or TXT all have a
\* character that is not whitespace; the pages of a PDF are its non-blank pages
\* in document order, each numbered with its 1-based position in the document;
\* a DOCX or TXT gives at most one page, numbered 1; and a file with no
\* non-blank text gives no page, and its upload fails with nothing embedded or
\* stored.
C23_ExtractedPages ==
    \A t \in TaskIds :
        tasks[t].kind = "upload" /\ tasks[t].pc = "done"
        => LET content == tasks[t].file.content
               extension == Extension(tasks[t].file.name)
               r == tasks[t].resp
               pages == r.pages
           IN  /\ r.extracted
               /\ \A i \in 1..Len(pages) : ~Blank(pages[i].text)
               /\ extension = <<"p","d","f">>
                  => /\ \A i \in 1..Len(pages) :
                           /\ pages[i].page \in 1..Len(content)
                           /\ pages[i].text = content[pages[i].page]
                     /\ \A i, j \in 1..Len(pages) : i < j => pages[i].page < pages[j].page
                     /\ \A n \in 1..Len(content) :
                           ~Blank(content[n]) => \E i \in 1..Len(pages) : pages[i].page = n
               /\ extension \in {<<"d","o","c","x">>, <<"d","o","c">>, <<"t","x","t">>}
                  => /\ Len(pages) <= 1
                     /\ \A i \in 1..Len(pages) : pages[i].page = 1
               /\ (\A n \in 1..Len(content) : Blank(content[n]))
                  => /\ pages = <<>>
                     /\ r.status = 400 /\ r.embed_calls = 0 /\ r.index_writes = 0
                     /\ chunks = {}

\* a PDF whose second page is blank was uploaded: its first and third pages were
\* kept, numbered 1 and 3
C23_Witness ==
    \E t \in TaskIds :
        /\ tasks[t].kind = "upload" /\ tasks[t].pc = "done"
        /\ tasks[t].file.name = <<"x",".","p","d","f">>
        /\ Len(tasks[t].file.content) = 3 /\ Blank(tasks[t].file.content[2])
        /\ Len(tasks[t].resp.pages) = 2
        /\ tasks[t].resp.pages[1].page = 1 /\ tasks[t].resp.pages[2].page = 3
        /\ tasks[t].resp.status = 200

====
